---- MODULE Spec2Model ----
(***************************************************************************)
(* Model of util.ForkAndSwitchToNamespace (src/util/ns_evaluator.go): the  *)
(* parent creates a pipe, forks, reads the child's NUL-terminated message  *)
(* in a reader goroutine and races it against a deadline; the child        *)
(* switches namespaces, runs the caller's logic, encodes and writes the    *)
(* outcome and exits.                                                      *)
(*                                                                         *)
(* Bytes.  A text is a sequence of units.  A unit is one byte, written as  *)
(* a one-character string, or a fixed phrase that contains no zero byte    *)
(* and stands for its bytes (a tag, an errno text, a wrap prefix, the JSON  *)
(* key).                                                                   *)
(* The zero byte is the unit NUL.  Reads and writes split a text between   *)
(* units.                                                                  *)
(***************************************************************************)
EXTENDS Integers, Sequences, FiniteSets, TLC

\* Number of call slots of ForkAndSwitchToNamespace in the one parent process.
NCalls == 2
\* Largest field value of the result struct the caller logic returns.
MaxCount == 1
\* Longest error text drawn over ErrAlphabet.
MaxErrLen == 2
\* bufSize := 256, the reader's first buffer size.
InitBufSize == 256
\* Units a pipe holds before a write blocks (the kernel's pipe capacity, scaled
\* to the model's messages: the longest "ok:" message does not fit).
PipeCap == 3

Calls == 1..NCalls
\* Process ids: 0 is the parent, c is the child forked by call c.
Parent == 0
Procs == {Parent} \cup Calls

NUL == "NUL"

(***************************************************************************)
(* Values.  T is a struct with one numeric field, json key "c"; a *T is    *)
(* nil or points to a struct.  The field value NaNCount stands for a value *)
(* json.Marshal refuses.                                                   *)
(***************************************************************************)
NaNCount == 0 - 1
Nil == [isNil |-> TRUE, count |-> 0]
Ptr(n) == [isNil |-> FALSE, count |-> n]
ZeroT == Ptr(0)
Results == {Nil} \cup {Ptr(n) : n \in 0..MaxCount} \cup {Ptr(NaNCount)}

NoErr == [isErr |-> FALSE, text |-> <<>>]
Err(t) == [isErr |-> TRUE, text |-> t]

Digits == <<"0", "1", "2", "3", "4", "5", "6", "7", "8", "9">>

RECURSIVE SeqsUpTo(_, _)
SeqsUpTo(S, n) ==
  IF n = 0 THEN {<<>>}
  ELSE LET shorter == SeqsUpTo(S, n - 1)
       IN shorter \cup {Append(s, x) : s \in {t \in shorter : Len(t) = n - 1}, x \in S}

ErrAlphabet == {NUL, "a"}
\* Error texts the caller logic can fail with: every text over ErrAlphabet up
\* to MaxErrLen, and two texts that look like message tags.
ErrTexts ==
  SeqsUpTo(ErrAlphabet, MaxErrLen)
    \cup {<<"ok:">>, <<"err:", "a">>}

\* What toExecute returns: (value, nil) or (nil, error).
LogicOutcomes ==
  {[res |-> r, err |-> NoErr] : r \in Results}
    \cup {[res |-> Nil, err |-> Err(t)] : t \in ErrTexts}

\* The namespace directory given by the caller: both handles present, a path
\* holding a zero byte, no "net" entry, no "mnt" entry.
NsRefs == {"ok", "nul_in_path", "no_net", "no_mnt"}

\* Kernel failures of switchNs that do not depend on the directory's entries.
KernelFaults == {"none", "setns_net", "close_net", "setns_mnt", "close_mnt"}

(***************************************************************************)
(* Pure functions                                                          *)
(***************************************************************************)
HasPrefix(s, p) == Len(s) >= Len(p) /\ SubSeq(s, 1, Len(p)) = p
TrimPrefix(s, p) == IF HasPrefix(s, p) THEN SubSeq(s, Len(p) + 1, Len(s)) ELSE s
Contains(s, b) == \E i \in 1..Len(s) : s[i] = b

TagErr == <<"err:">>
TagOk == <<"ok:">>

\* json.Marshal(out) for out of type *T.
Marshal(v) ==
  IF v.isNil THEN [ok |-> TRUE, bytes |-> <<"null">>]
  ELSE IF v.count = NaNCount
    THEN [ok |-> FALSE, bytes |-> <<"json: unsupported value">>]
    ELSE [ok |-> TRUE, bytes |-> <<"{", "\"c\"", ":", Digits[v.count + 1], "}">>]

\* json.Unmarshal(text, &unmarshalled) with unmarshalled the zero value of T;
\* the caller then returns &unmarshalled, which is never nil.
Unmarshal(text) ==
  IF text = <<"null">> THEN [ok |-> TRUE, val |-> ZeroT]
  ELSE IF /\ Len(text) = 5
          /\ text[1] = "{" /\ text[2] = "\"c\"" /\ text[3] = ":" /\ text[5] = "}"
          /\ \E d \in 1..Len(Digits) : Digits[d] = text[4]
    THEN [ok |-> TRUE,
          val |-> Ptr((CHOOSE d \in 1..Len(Digits) : Digits[d] = text[4]) - 1)]
    ELSE [ok |-> FALSE, val |-> Nil]

(***************************************************************************)
(* switchNs: the system calls it makes, in order, and the error it         *)
(* returns.  open fails when the directory lacks the entry; setns and      *)
(* close fail when the kernel fault names them.                            *)
(***************************************************************************)
Sys(call, ns, ok) == [call |-> call, ns |-> ns, ok |-> ok]
Wrap(phrase, errno) == Err(<<phrase, ": ", errno>>)

\* open, setns, close of one namespace handle (lines 222-237 for "net", lines
\* 239-251 for "mnt"); a failed setns still closes the handle.
NsSteps(ns, name, missing, setnsFails, closeFails) ==
  IF missing
  THEN [trace |-> <<Sys("open", ns, FALSE)>>,
        err |-> Wrap("failed to open " \o name \o " namespace", "ENOENT")]
  ELSE IF setnsFails
  THEN [trace |-> <<Sys("open", ns, TRUE), Sys("setns", ns, FALSE), Sys("close", ns, TRUE)>>,
        err |-> Wrap("failed to setns " \o name \o " namespace", "EPERM")]
  ELSE IF closeFails
  THEN [trace |-> <<Sys("open", ns, TRUE), Sys("setns", ns, TRUE), Sys("close", ns, FALSE)>>,
        err |-> Wrap("failed to close " \o name \o " namespace", "EIO")]
  ELSE [trace |-> <<Sys("open", ns, TRUE), Sys("setns", ns, TRUE), Sys("close", ns, TRUE)>>,
        err |-> NoErr]

NetSteps(ref, flt) == NsSteps("net", "net", ref = "no_net", flt = "setns_net", flt = "close_net")
MountSteps(ref, flt) == NsSteps("mnt", "mount", ref = "no_mnt", flt = "setns_mnt", flt = "close_mnt")

\* switchNs with the commented-out test of lines 223-225 in force: a missing
\* "net" entry is not an error.
switchNsIgnoreMissing(ref, flt) ==
  LET net == NetSteps(ref, flt)
      mnt == MountSteps(ref, flt)
  IN IF ref = "no_net" THEN [trace |-> net.trace, err |-> NoErr]
     ELSE IF net.err.isErr THEN net
     ELSE [trace |-> net.trace \o mnt.trace, err |-> mnt.err]

\* switchNs that keeps the first error and goes on to the mount namespace.
switchNsNoAbort(ref, flt) ==
  LET net == NetSteps(ref, flt)
      mnt == MountSteps(ref, flt)
  IN [trace |-> net.trace \o mnt.trace,
      err |-> IF net.err.isErr THEN net.err ELSE mnt.err]

switchNs(ref, flt) ==
  LET net == NetSteps(ref, flt)
      mnt == MountSteps(ref, flt)
  IN IF net.err.isErr THEN net
     ELSE [trace |-> net.trace \o mnt.trace, err |-> mnt.err]

(***************************************************************************)
(* Result protocol                                                         *)
(***************************************************************************)
\* The child's message for the error err and the value out it holds after
\* switchNs and toExecute: "err:<text>" or "ok:<json>", then the NUL byte.
EncodeMsg(out, err) ==
  LET body == IF err.isErr THEN TagErr \o err.text
              ELSE LET base == Marshal(out)
                   IN IF ~base.ok THEN TagErr \o base.bytes
                      ELSE TagOk \o base.bytes
  IN Append(body, NUL)

\* A child that runs toExecute whether or not switchNs succeeded.
ChildOutcomeAlwaysRun(sw, lg) ==
  [res |-> lg.res, err |-> lg.err, ran |-> TRUE, werr |-> FALSE]

\* What the child holds after switchNs and, when that succeeded, toExecute.
ChildOutcome(sw, lg) ==
  IF sw.err.isErr THEN [res |-> Nil, err |-> sw.err, ran |-> FALSE, werr |-> FALSE]
  ELSE [res |-> lg.res, err |-> lg.err, ran |-> TRUE, werr |-> FALSE]

Outcome(kind, val, text) == [kind |-> kind, val |-> val, text |-> text]
NoOutcome == Outcome("none", Nil, <<>>)
ErrTimeout == Outcome("timeout", Nil, <<"ForkAndSwitchToNamespace timed out">>)
ErrTermination == Outcome("protocol", Nil, <<"invalid termination character, not NUL">>)

\* Decode without the test of the last byte: it is stripped whatever it is.
DecodeUnchecked(buf) ==
  IF Len(buf) = 0 THEN Outcome("panic", Nil, <<"index out of range [-1]">>)
  ELSE LET out == SubSeq(buf, 1, Len(buf) - 1)
       IN IF HasPrefix(out, TagErr)
          THEN Outcome("error", Nil, TrimPrefix(out, TagErr))
          ELSE IF HasPrefix(out, TagOk)
          THEN LET u == Unmarshal(TrimPrefix(out, TagOk))
               IN IF u.ok THEN Outcome("value", u.val, <<>>)
                  ELSE Outcome("protocol", Nil, <<"json: cannot unmarshal">>)
          ELSE Outcome("protocol", Nil, <<"unknown response: ">> \o out)

\* A decoder that looks for the tags anywhere in the text, not at its start.
DecodeAnywhere(buf) ==
  IF Len(buf) = 0 THEN Outcome("panic", Nil, <<"index out of range [-1]">>)
  ELSE IF buf[Len(buf)] # NUL THEN ErrTermination
  ELSE LET out == SubSeq(buf, 1, Len(buf) - 1)
       IN IF Contains(out, "err:")
          THEN Outcome("error", Nil, TrimPrefix(out, TagErr))
          ELSE IF Contains(out, "ok:")
          THEN LET u == Unmarshal(TrimPrefix(out, TagOk))
               IN IF u.ok THEN Outcome("value", u.val, <<>>)
                  ELSE Outcome("protocol", Nil, <<"json: cannot unmarshal">>)
          ELSE Outcome("protocol", Nil, <<"unknown response: ">> \o out)

\* The done branch of the select applied to the received buffer.  Indexing
\* an empty (or nil) buffer at len-1 panics.
Decode(buf) ==
  IF Len(buf) = 0 THEN Outcome("panic", Nil, <<"index out of range [-1]">>)
  ELSE IF buf[Len(buf)] # NUL THEN ErrTermination
  ELSE LET out == SubSeq(buf, 1, Len(buf) - 1)
       IN IF HasPrefix(out, TagErr)
          THEN Outcome("error", Nil, TrimPrefix(out, TagErr))
          ELSE IF HasPrefix(out, TagOk)
          THEN LET u == Unmarshal(TrimPrefix(out, TagOk))
               IN IF u.ok THEN Outcome("value", u.val, <<>>)
                  ELSE Outcome("protocol", Nil, <<"json: cannot unmarshal">>)
          ELSE Outcome("protocol", Nil, <<"unknown response: ">> \o out)

(***************************************************************************)
(* State                                                                   *)
(***************************************************************************)
VARIABLES
  logic,      \* [call -> what toExecute returns], the closure given by the caller
  nsref,      \* [call -> the namespace directory given by the caller]
  fault,      \* [call -> the kernel failure the call's switchNs meets]
  alive,      \* the parent process has not been ended by a panic
  ppc,        \* [call -> where the call is in the parent]
  pid,        \* [call -> value fork returned to the parent: 0 not yet, -1 failed]
  fds,        \* [process -> the pipe ends it holds open], an end is <<call, "r"|"w">>
  pipe,       \* [call -> bytes written to the call's pipe and not yet read]
  cpc,        \* [call -> where the call's child is]
  sys,        \* [call -> system calls switchNs made in the child]
  child,      \* [call -> out, err held by the child, whether toExecute ran, and
              \*  whether a write call of the write loop failed]
  msg,        \* [call -> the child's encoded message]
  written,    \* [call -> written, the count the child's write loop keeps]
  rpc,        \* [call -> where the reader goroutine is]
  buf,        \* [call -> buf[:bufIndex] of the reader]
  bufSize,    \* [call -> bufSize of the reader]
  recv,       \* [call -> what the select received on done]
  outcome,    \* [call -> what the call returned to its caller]
  returns,    \* [call -> number of returns of the call to its caller]
  kills,      \* [call -> the unix.Kill calls the call made]
  sigint,     \* [process -> a SIGINT was delivered to it]
  scan,       \* findScsiDevice: the scanner loop over the lines of the output
  get         \* GetDevice: the retry loop

vars == <<logic, nsref, fault, alive, ppc, pid, fds, pipe, cpc, sys, child, msg, written,
          rpc, buf, bufSize, recv, outcome, returns, kills, sigint, scan, get>>

inputVars == <<logic, nsref, fault>>
iscsiVars == <<scan, get>>
parentVars == <<alive, ppc, pid, outcome, returns, kills, recv>>
childVars == <<cpc, sys, child, msg, written>>
readerVars == <<rpc, buf, bufSize>>

RdEnd(c) == <<c, "r">>
WrEnd(c) == <<c, "w">>
Min(a, b) == IF a <= b THEN a ELSE b

NoChild == [res |-> Nil, err |-> NoErr, ran |-> FALSE, werr |-> FALSE]
NoRecv == [got |-> FALSE, isNil |-> FALSE, buf |-> <<>>]

\* The state before any call has started; the calls in active are about to run.
InitWith(active, logics, refs, faults) ==
  /\ logic \in [Calls -> logics]
  /\ nsref \in [Calls -> refs]
  /\ fault \in [Calls -> faults]
  /\ \A c \in Calls \ active :
       /\ logic[c] = [res |-> Nil, err |-> Err(<<>>)]
       /\ nsref[c] = "ok"
       /\ fault[c] = "none"
  /\ alive = TRUE
  /\ ppc = [c \in Calls |-> IF c \in active THEN "start" ELSE "idle"]
  /\ pid = [c \in Calls |-> 0]
  /\ fds = [p \in Procs |-> {}]
  /\ pipe = [c \in Calls |-> <<>>]
  /\ cpc = [c \in Calls |-> "none"]
  /\ sys = [c \in Calls |-> <<>>]
  /\ child = [c \in Calls |-> NoChild]
  /\ msg = [c \in Calls |-> <<>>]
  /\ written = [c \in Calls |-> 0]
  /\ rpc = [c \in Calls |-> "none"]
  /\ buf = [c \in Calls |-> <<>>]
  /\ bufSize = [c \in Calls |-> InitBufSize]
  /\ recv = [c \in Calls |-> NoRecv]
  /\ outcome = [c \in Calls |-> NoOutcome]
  /\ returns = [c \in Calls |-> 0]
  /\ kills = [c \in Calls |-> <<>>]
  /\ sigint = [p \in Procs |-> FALSE]

\* findScsiDevice and GetDevice have not been called.
NoScan == [lines |-> <<>>, i |-> 0, inTarget |-> FALSE, inIP |-> FALSE, inLun |-> FALSE,
           ipAt |-> 0, lunAt |-> 0, pc |-> "idle", name |-> <<>>, err |-> ""]
NoGet == [count |-> 0, i |-> 0, dev |-> "nil", err |-> "nil", tried |-> 0, pc |-> "idle",
          retDev |-> "nil", retErr |-> "nil"]
IscsiIdle == scan = NoScan /\ get = NoGet

\* One call, every input.
Init == InitWith({1}, LogicOutcomes, NsRefs, KernelFaults) /\ IscsiIdle

(***************************************************************************)
(* Parent: lines 21-47                                                     *)
(***************************************************************************)
\* return of the call to its caller with outcome o
Return(c, o) ==
  /\ outcome' = [outcome EXCEPT ![c] = o]
  /\ returns' = [returns EXCEPT ![c] = @ + 1]
  /\ ppc' = [ppc EXCEPT ![c] = "returned"]

\* BytePtrFromString of the two paths, then unix.Pipe.
ParentSetup(c) ==
  /\ alive /\ ppc[c] = "start"
  /\ \/ /\ nsref[c] = "nul_in_path"
        /\ Return(c, Outcome("setup", Nil, <<"EINVAL">>))
        /\ UNCHANGED fds
     \/ /\ nsref[c] # "nul_in_path"
        /\ Return(c, Outcome("setup", Nil, <<"failed to init pipes", ": ", "EMFILE">>))
        /\ UNCHANGED fds
     \/ /\ nsref[c] # "nul_in_path"
        /\ fds' = [fds EXCEPT ![Parent] = @ \cup {RdEnd(c), WrEnd(c)}]
        /\ ppc' = [ppc EXCEPT ![c] = "piped"]
        /\ UNCHANGED <<outcome, returns>>
  /\ UNCHANGED <<iscsiVars, inputVars, alive, pid, kills, recv, pipe, childVars, readerVars, sigint>>

\* unix.RawSyscall(SYS_FORK): the child starts with a copy of every descriptor
\* the parent holds at this moment.
ParentFork(c) ==
  /\ alive /\ ppc[c] = "piped"
  /\ \/ /\ pid' = [pid EXCEPT ![c] = 0 - 1]
        /\ Return(c, Outcome("setup", Nil, <<"failed to fork", ": ", "EAGAIN">>))
        /\ UNCHANGED <<fds, cpc>>
     \/ /\ pid' = [pid EXCEPT ![c] = c]
        /\ fds' = [fds EXCEPT ![c] = fds[Parent]]
        /\ cpc' = [cpc EXCEPT ![c] = "switch"]
        /\ ppc' = [ppc EXCEPT ![c] = "forked"]
        /\ UNCHANGED <<outcome, returns>>
  /\ UNCHANGED <<iscsiVars, inputVars, alive, kills, recv, pipe, sys, child, msg, written,
                 readerVars, sigint>>

\* close_raw(pipes[1]), make(chan), go func: the reader starts and the parent
\* enters the select.
ParentCloseWrite(c) ==
  /\ alive /\ ppc[c] = "forked"
  /\ fds' = [fds EXCEPT ![Parent] = @ \ {WrEnd(c)}]
  /\ rpc' = [rpc EXCEPT ![c] = "read"]
  /\ ppc' = [ppc EXCEPT ![c] = "select"]
  /\ UNCHANGED <<iscsiVars, inputVars, alive, pid, outcome, returns, kills, recv, pipe, childVars,
                 buf, bufSize, sigint>>

(***************************************************************************)
(* Reader goroutine: lines 51-74                                           *)
(***************************************************************************)
\* No process holds the write end of call c's pipe and the pipe is drained:
\* read returns 0.
AtEOF(c) == pipe[c] = <<>> /\ \A p \in Procs : WrEnd(c) \notin fds[p]

\* A reader that never grows its buffer.
GrownNever(c) == bufSize[c]

\* bufSize after the growth test at the top of the loop.
Grown(c) == IF Len(buf[c]) = bufSize[c] THEN 2 * bufSize[c] ELSE bufSize[c]

\* read returns 0: at end-of-file, or when the slice buf[bufIndex:] it is given
\* is empty.
ReadsZero(c) == AtEOF(c) \/ Grown(c) - Len(buf[c]) = 0

\* A reader that hands over whatever its first read returned, without looping
\* until a zero byte or a read of 0.
ReaderReadOnce(c) ==
  /\ alive /\ rpc[c] = "read"
  /\ bufSize' = [bufSize EXCEPT ![c] = Grown(c)]
  /\ \/ /\ rpc' = [rpc EXCEPT ![c] = "sendnil"]
        /\ UNCHANGED <<buf, pipe>>
     \/ /\ ReadsZero(c)
        /\ rpc' = [rpc EXCEPT ![c] = "close"]
        /\ UNCHANGED <<buf, pipe>>
     \/ /\ pipe[c] # <<>>
        /\ \E n \in 1..Min(Len(pipe[c]), Grown(c) - Len(buf[c])) :
             /\ buf' = [buf EXCEPT ![c] = buf[c] \o SubSeq(pipe[c], 1, n)]
             /\ pipe' = [pipe EXCEPT ![c] = SubSeq(pipe[c], n + 1, Len(pipe[c]))]
             /\ rpc' = [rpc EXCEPT ![c] = "close"]
  /\ UNCHANGED <<iscsiVars, inputVars, parentVars, fds, childVars, sigint>>

\* One iteration of the read loop: grow, read, then break or loop.
ReaderRead(c) ==
  /\ alive /\ rpc[c] = "read"
  /\ bufSize' = [bufSize EXCEPT ![c] = Grown(c)]
  /\ \/ /\ rpc' = [rpc EXCEPT ![c] = "sendnil"]
        /\ UNCHANGED <<buf, pipe>>
     \/ /\ ReadsZero(c)
        /\ rpc' = [rpc EXCEPT ![c] = "close"]
        /\ UNCHANGED <<buf, pipe>>
     \/ /\ pipe[c] # <<>>
        /\ \E n \in 1..Min(Len(pipe[c]), Grown(c) - Len(buf[c])) :
             LET got == buf[c] \o SubSeq(pipe[c], 1, n)
             IN /\ buf' = [buf EXCEPT ![c] = got]
                /\ pipe' = [pipe EXCEPT ![c] = SubSeq(pipe[c], n + 1, Len(pipe[c]))]
                /\ rpc' = [rpc EXCEPT ![c] = IF Contains(got, NUL) THEN "close" ELSE "read"]
  /\ UNCHANGED <<iscsiVars, inputVars, parentVars, fds, childVars, sigint>>

\* close_raw(pipes[0]) after the loop; the reader then blocks sending on done.
ReaderClose(c) ==
  /\ alive /\ rpc[c] = "close"
  /\ fds' = [fds EXCEPT ![Parent] = @ \ {RdEnd(c)}]
  /\ rpc' = [rpc EXCEPT ![c] = "send"]
  /\ UNCHANGED <<iscsiVars, inputVars, parentVars, pipe, childVars, buf, bufSize, sigint>>

(***************************************************************************)
(* Parent select: lines 76-105                                             *)
(***************************************************************************)
\* case buf := <-done: the reader's send and the parent's receive meet, and
\* the parent decodes.  A panic ends the parent process.
ParentRecv(c) ==
  /\ alive /\ ppc[c] = "select" /\ rpc[c] \in {"send", "sendnil"}
  /\ LET b == IF rpc[c] = "sendnil" THEN <<>> ELSE buf[c]
         o == Decode(b)
     IN /\ recv' = [recv EXCEPT ![c] = [got |-> TRUE, isNil |-> rpc[c] = "sendnil", buf |-> b]]
        /\ IF o.kind = "panic"
           THEN /\ alive' = FALSE
                /\ ppc' = [ppc EXCEPT ![c] = "panicked"]
                /\ outcome' = [outcome EXCEPT ![c] = o]
                /\ fds' = [fds EXCEPT ![Parent] = {}]
                /\ UNCHANGED returns
           ELSE /\ Return(c, o)
                /\ UNCHANGED <<alive, fds>>
  /\ rpc' = [rpc EXCEPT ![c] = "done"]
  /\ UNCHANGED <<iscsiVars, inputVars, pid, kills, pipe, childVars, buf, bufSize, sigint>>

\* The timeout branch returning the error of a failed unix.Kill instead of
\* the timeout error.
ParentTimeoutKillChecked(c) ==
  /\ alive /\ ppc[c] = "select"
  /\ \E ok \in BOOLEAN :
       /\ kills' = [kills EXCEPT ![c] = Append(@, [pid |-> pid[c], ok |-> ok])]
       /\ sigint' = [sigint EXCEPT ![pid[c]] = @ \/ ok]
       /\ Return(c, IF ok THEN ErrTimeout ELSE Outcome("setup", Nil, <<"ESRCH">>))
  /\ UNCHANGED <<iscsiVars, inputVars, alive, pid, recv, fds, pipe, childVars, readerVars>>

\* case <-time.After(timeout): unix.Kill(pid, SIGINT), whose failure is only
\* logged, then the timeout error.
ParentTimeout(c) ==
  /\ alive /\ ppc[c] = "select"
  /\ \E ok \in BOOLEAN :
       /\ kills' = [kills EXCEPT ![c] = Append(@, [pid |-> pid[c], ok |-> ok])]
       /\ sigint' = [sigint EXCEPT ![pid[c]] = @ \/ ok]
  /\ Return(c, ErrTimeout)
  /\ UNCHANGED <<iscsiVars, inputVars, alive, pid, recv, fds, pipe, childVars, readerVars>>

(***************************************************************************)
(* Child: lines 115-154                                                    *)
(***************************************************************************)
\* err = switchNs(mountNs, netNs)
ChildSwitch(c) ==
  /\ cpc[c] = "switch"
  /\ LET sw == switchNs(nsref[c], fault[c])
     IN /\ sys' = [sys EXCEPT ![c] = sw.trace]
        /\ child' = [child EXCEPT ![c] = [NoChild EXCEPT !.err = sw.err]]
  /\ cpc' = [cpc EXCEPT ![c] = "exec"]
  /\ UNCHANGED <<iscsiVars, inputVars, parentVars, fds, pipe, msg, written, readerVars, sigint>>

\* if err == nil { out, err = toExecute() }, then the message is encoded.
ChildExec(c) ==
  /\ cpc[c] = "exec"
  /\ LET sw == [err |-> child[c].err]
         held == ChildOutcome(sw, logic[c])
     IN /\ child' = [child EXCEPT ![c] = held]
        /\ msg' = [msg EXCEPT ![c] = EncodeMsg(held.res, held.err)]
  /\ cpc' = [cpc EXCEPT ![c] = "write"]
  /\ UNCHANGED <<iscsiVars, inputVars, parentVars, fds, pipe, sys, written, readerVars, sigint>>

\* Room left in call c's pipe: a write to a full pipe blocks while any
\* process holds the read end.
Room(c) == PipeCap - Len(pipe[c])

\* One iteration of the write loop: a failed write breaks; otherwise the
\* kernel takes between one and all of the remaining bytes, as far as the
\* pipe has room.
ChildWrite(c) ==
  /\ cpc[c] = "write"
  /\ \/ /\ cpc' = [cpc EXCEPT ![c] = "close"]
        /\ child' = [child EXCEPT ![c].werr = TRUE]
        /\ UNCHANGED <<pipe, written>>
     \/ \E n \in 1..Min(Len(msg[c]) - written[c], Room(c)) :
          /\ pipe' = [pipe EXCEPT ![c] = @ \o SubSeq(msg[c], written[c] + 1, written[c] + n)]
          /\ written' = [written EXCEPT ![c] = @ + n]
          /\ cpc' = [cpc EXCEPT ![c] = IF written[c] + n < Len(msg[c]) THEN "write" ELSE "close"]
          /\ UNCHANGED child
  /\ UNCHANGED <<iscsiVars, inputVars, parentVars, fds, sys, msg, readerVars, sigint>>

\* close_raw(pipes[1])
ChildClose(c) ==
  /\ cpc[c] = "close"
  /\ fds' = [fds EXCEPT ![c] = @ \ {WrEnd(c)}]
  /\ cpc' = [cpc EXCEPT ![c] = "exit"]
  /\ UNCHANGED <<iscsiVars, inputVars, parentVars, pipe, sys, child, msg, written, readerVars, sigint>>

\* SYS_EXIT_GROUP: the kernel closes every descriptor the child still holds.
ChildExit(c) ==
  /\ cpc[c] = "exit"
  /\ fds' = [fds EXCEPT ![c] = {}]
  /\ cpc' = [cpc EXCEPT ![c] = "exited"]
  /\ UNCHANGED <<iscsiVars, inputVars, parentVars, pipe, sys, child, msg, written, readerVars, sigint>>

\* The SIGINT of a timed-out parent ends the child wherever it is; a child
\* that never takes this step has outlived the signal.
ChildKilled(c) ==
  /\ sigint[c] /\ cpc[c] \notin {"none", "exited", "killed"}
  /\ fds' = [fds EXCEPT ![c] = {}]
  /\ cpc' = [cpc EXCEPT ![c] = "killed"]
  /\ UNCHANGED <<iscsiVars, inputVars, parentVars, pipe, sys, child, msg, written, readerVars, sigint>>

Next ==
  \E c \in Calls :
    \/ ParentSetup(c)
    \/ ParentFork(c)
    \/ ParentCloseWrite(c)
    \/ ReaderRead(c)
    \/ ReaderClose(c)
    \/ ParentRecv(c)
    \/ ParentTimeout(c)
    \/ ChildSwitch(c)
    \/ ChildExec(c)
    \/ ChildWrite(c)
    \/ ChildClose(c)
    \/ ChildExit(c)
    \/ ChildKilled(c)

Spec == Init /\ [][Next]_vars

\* Every call slot runs, concurrently in the one parent, on few inputs.
ConcLogic == {[res |-> Nil, err |-> Err(<<>>)]}
ConcRefs == {"ok", "nul_in_path"}
InitConc == InitWith(Calls, ConcLogic, ConcRefs, {"none"}) /\ IscsiIdle
SpecConc == InitConc /\ [][Next]_vars

(***************************************************************************)
(* One call whose message is longer than twice the reader's first buffer,  *)
(* so that the buffer grows twice.                                         *)
(***************************************************************************)
LongLen == 520
LongText == [k \in 1..LongLen |-> "a"]
LongLogic == ConcLogic \cup {[res |-> Nil, err |-> Err(LongText)]}
InitBuf == InitWith({1}, LongLogic, ConcRefs, {"none"}) /\ IscsiIdle
SpecBuf == InitBuf /\ [][Next]_vars

(***************************************************************************)
(* findScsiDevice (initiator.go lines 235-319) on the lines of an          *)
(* "iscsiadm -m session -P 3" output.  A line is a sequence of text units. *)
(***************************************************************************)
MaxLines == 5

HasSuffix(s, p) == Len(s) >= Len(p) /\ SubSeq(s, Len(s) - Len(p) + 1, Len(s)) = p
\* strings.Contains for a pattern of several units.
ContainsSeq(s, p) == \E k \in 0..(Len(s) - Len(p)) : SubSeq(s, k + 1, k + Len(p)) = p

\* The request: target, ip and lun given to findScsiDevice.
ReqTarget == "iqn.a"
ReqIP == "10.0.0.1"
ReqLun == "0"
targetLine == <<"Target: ", ReqTarget>>
ipLine == <<" ", ReqIP, ":">>
lunLine == <<"Lun: ", ReqLun>>
diskPrefix == <<"Attached scsi disk">>
stateLine == "State:"

\* Lines of the output: the header of the requested target's section (with
\* and without the "(non-flash)" suffix) and of another target's, a portal
\* line with the requested ip, a line of the requested lun, two disk lines,
\* and a line holding none of the patterns.
OutputLines ==
  { <<"Target: ", ReqTarget>>,
    <<"Target: ", ReqTarget, " ", "(non-flash)">>,
    <<"Target: ", "iqn.b">>,
    <<"Current Portal:", " ", ReqIP, ":", "3260,1">>,
    <<"scsi12 Channel 00 Id 0 ", "Lun: ", ReqLun>>,
    <<"Attached scsi disk", " ", "sdb", " ", "State:", " ", "running">>,
    <<"Attached scsi disk", " ", "sdc", " ", "State:", " ", "running">>,
    <<"Attached SCSI devices:">> }

\* strings.Split(line, stateLine)[0]
BeforeState(line) ==
  IF Contains(line, stateLine)
  THEN SubSeq(line, 1, (CHOOSE k \in 1..Len(line) :
                          line[k] = stateLine /\ \A j \in 1..(k - 1) : line[j] # stateLine) - 1)
  ELSE line
\* strings.TrimSpace
RECURSIVE TrimLeft(_)
TrimLeft(s) == IF s # <<>> /\ s[1] = " " THEN TrimLeft(Tail(s)) ELSE s
RECURSIVE TrimRight(_)
TrimRight(s) == IF s # <<>> /\ s[Len(s)] = " " THEN TrimRight(SubSeq(s, 1, Len(s) - 1)) ELSE s
TrimSpace(s) == TrimRight(TrimLeft(s))
\* Lines 296-298: the device name on a disk line.
DiskName(line) == TrimSpace(TrimPrefix(TrimSpace(BeforeState(line)), diskPrefix))

\* ne.Execute at line 242: it fails, or the lines are scanned.
ScanStart ==
  /\ scan.pc = "start"
  /\ \/ scan' = [scan EXCEPT !.pc = "done", !.err = "execute failed"]
     \/ scan' = [scan EXCEPT !.pc = "scan"]
  /\ UNCHANGED <<get, inputVars, parentVars, childVars, readerVars, fds, pipe, sigint>>

\* One iteration of the scanner loop, lines 270-301.
ScanLine ==
  /\ scan.pc = "scan" /\ scan.i < Len(scan.lines)
  /\ LET k == scan.i + 1
         line == scan.lines[k]
     IN scan' =
          IF ~scan.inTarget /\ (ContainsSeq(line, targetLine \o <<" ">>) \/ HasSuffix(line, targetLine))
          THEN [scan EXCEPT !.i = k, !.inTarget = TRUE]
          ELSE IF scan.inTarget /\ ContainsSeq(line, ipLine)
          THEN [scan EXCEPT !.i = k, !.inIP = TRUE, !.ipAt = k]
          ELSE IF scan.inIP /\ ContainsSeq(line, lunLine)
          THEN [scan EXCEPT !.i = k, !.inLun = TRUE, !.lunAt = k]
          ELSE IF scan.inLun
          THEN IF ~ContainsSeq(line, diskPrefix)
               THEN [scan EXCEPT !.i = k, !.pc = "done", !.err = "invalid output format"]
               ELSE [scan EXCEPT !.i = k, !.pc = "found", !.name = DiskName(line)]
          ELSE [scan EXCEPT !.i = k]
  /\ UNCHANGED <<get, inputVars, parentVars, childVars, readerVars, fds, pipe, sigint>>

\* After the loop, lines 303-318: no name is an error; otherwise the name is
\* looked up in the known devices.
ScanEnd ==
  /\ \/ scan.pc = "found"
     \/ scan.pc = "scan" /\ scan.i = Len(scan.lines)
  /\ IF scan.name = <<>>
     THEN scan' = [scan EXCEPT !.pc = "done", !.err = "cannot find iSCSI device"]
     ELSE \E e \in {"", "GetKnownDevices failed", "cannot find kernel device"} :
            scan' = [scan EXCEPT !.pc = "done", !.err = e]
  /\ UNCHANGED <<get, inputVars, parentVars, childVars, readerVars, fds, pipe, sigint>>

\* findScsiDevice is called on an output of up to MaxLines lines; no
\* namespace call is running.
InitScan ==
  /\ InitWith({}, ConcLogic, {"ok"}, {"none"})
  /\ get = NoGet
  /\ \E ls \in SeqsUpTo(OutputLines, MaxLines) : scan = [NoScan EXCEPT !.lines = ls, !.pc = "start"]

NextScan == ScanStart \/ ScanLine \/ ScanEnd
SpecScan == InitScan /\ [][NextScan]_vars

(***************************************************************************)
(* GetDevice (initiator.go lines 160-175): the retry loop around           *)
(* findScsiDevice.                                                         *)
(***************************************************************************)
MaxRetries == 3
DeviceWaitRetryCounts == 10
\* DeviceWaitRetryCounts is a package variable: its default and every small
\* value a caller can store in it.
RetryCounts == (0..MaxRetries) \cup {DeviceWaitRetryCounts}

\* What one call of findScsiDevice returns: a device and no error, or no
\* device and one of its errors.
FindResults ==
  {[dev |-> d, err |-> "nil"] : d \in {"sdb", "sdc"}}
    \cup {[dev |-> "nil", err |-> e] :
            e \in {"execute failed", "invalid output format", "cannot find iSCSI device",
                   "GetKnownDevices failed", "cannot find kernel device"}}

\* One iteration of the loop, lines 164-170: break on success, else sleep
\* and count.
GetAttempt ==
  /\ get.pc = "loop" /\ get.i < get.count
  /\ \E r \in FindResults :
       get' = [get EXCEPT !.dev = r.dev, !.err = r.err, !.tried = @ + 1,
                          !.i = IF r.err = "nil" THEN @ ELSE @ + 1,
                          !.pc = IF r.err = "nil" THEN "after" ELSE "loop"]
  /\ UNCHANGED <<scan, inputVars, parentVars, childVars, readerVars, fds, pipe, sigint>>

\* Lines 171-174, after the loop ended by the break or by its condition.
GetReturn ==
  /\ \/ get.pc = "after"
     \/ get.pc = "loop" /\ ~(get.i < get.count)
  /\ get' = [get EXCEPT !.pc = "done",
                        !.retDev = IF get.err # "nil" THEN "nil" ELSE get.dev,
                        !.retErr = get.err]
  /\ UNCHANGED <<scan, inputVars, parentVars, childVars, readerVars, fds, pipe, sigint>>

InitGet ==
  /\ InitWith({}, ConcLogic, {"ok"}, {"none"})
  /\ scan = NoScan
  /\ \E n \in RetryCounts : get = [NoGet EXCEPT !.count = n, !.pc = "loop"]

NextGet == GetAttempt \/ GetReturn
SpecGet == InitGet /\ [][NextGet]_vars

(***************************************************************************)
(* The done branch alone (lines 77-96), on every buffer up to MaxBufLen    *)
(* units a reader can hand over.                                           *)
(***************************************************************************)
MaxBufLen == 3
BufAlphabet == {"err:", "ok:", "null", "a", NUL}
\* Every short buffer, and the three well-formed "ok:" messages.
DecodeInputs ==
  SeqsUpTo(BufAlphabet, MaxBufLen)
    \cup {EncodeMsg(r, NoErr) : r \in {Nil, Ptr(0), Ptr(1)}}

\* Call 1 waits in its select; its reader read b from the pipe, closed the
\* read end and is sending b on done; the peer that wrote b has exited.
InitDecode ==
  /\ \E b \in DecodeInputs :
       /\ buf = [c \in Calls |-> IF c = 1 THEN b ELSE <<>>]
       /\ msg = [c \in Calls |-> IF c = 1 THEN b ELSE <<>>]
       /\ written = [c \in Calls |-> IF c = 1 THEN Len(b) ELSE 0]
  /\ logic = [c \in Calls |-> [res |-> Nil, err |-> Err(<<>>)]]
  /\ nsref = [c \in Calls |-> "ok"]
  /\ fault = [c \in Calls |-> "none"]
  /\ alive = TRUE
  /\ ppc = [c \in Calls |-> IF c = 1 THEN "select" ELSE "idle"]
  /\ pid = [c \in Calls |-> IF c = 1 THEN 1 ELSE 0]
  /\ fds = [p \in Procs |-> {}]
  /\ pipe = [c \in Calls |-> <<>>]
  /\ cpc = [c \in Calls |-> IF c = 1 THEN "exited" ELSE "none"]
  /\ sys = [c \in Calls |-> <<>>]
  /\ child = [c \in Calls |-> NoChild]
  /\ rpc = [c \in Calls |-> IF c = 1 THEN "send" ELSE "none"]
  /\ bufSize = [c \in Calls |-> InitBufSize]
  /\ recv = [c \in Calls |-> NoRecv]
  /\ outcome = [c \in Calls |-> NoOutcome]
  /\ returns = [c \in Calls |-> 0]
  /\ kills = [c \in Calls |-> <<>>]
  /\ sigint = [p \in Procs |-> FALSE]
  /\ IscsiIdle

NextDecode == \E c \in Calls : ParentRecv(c)
SpecDecode == InitDecode /\ [][NextDecode]_vars

(***************************************************************************)
(* Claims                                                                  *)
(***************************************************************************)
Forked(c) == pid[c] > 0
\* The select took the done branch with a buffer the reader accumulated.
Handed(c) == recv[c].got /\ ~recv[c].isNil
\* The child wrote its whole message and the parent received exactly it.
Delivered(c) == Handed(c) /\ written[c] = Len(msg[c]) /\ Len(msg[c]) > 0
Last(s) == s[Len(s)]

\* C1: a call that reached the clone delivers exactly one terminal outcome to
\* its caller, one of decoded value, decoded error, protocol error, timeout:
\* the parent never ends abnormally and never returns twice.
C1_ExactlyOneOutcome ==
  \A c \in Calls :
    Forked(c) =>
      /\ ppc[c] # "panicked"
      /\ returns[c] <= 1
      /\ ppc[c] = "returned" =>
           /\ returns[c] = 1
           /\ outcome[c].kind \in {"value", "error", "protocol", "timeout"}

\* C2: round trip: when switching succeeded, the logic returned a serializable
\* value V with no error and the message arrived before the deadline, the call
\* returns V itself, a nil pointer and the zero value included.
C2_RoundTrip ==
  \A c \in Calls :
    (/\ child[c].ran /\ ~logic[c].err.isErr /\ Marshal(logic[c].res).ok
     /\ Delivered(c) /\ recv[c].buf = msg[c])
      => /\ outcome[c].kind = "value"
         /\ outcome[c].val = logic[c].res

\* C3: when the logic failed with error E and the child's whole message was
\* written and handed to the parent before the deadline, the call returns a
\* nil result and an error whose text is E's text, byte for byte, whatever
\* bytes E's text holds.
C3_ErrorTextUnchanged ==
  \A c \in Calls :
    (child[c].ran /\ logic[c].err.isErr /\ Delivered(c))
      => /\ outcome[c].kind = "error"
         /\ outcome[c].val = Nil
         /\ outcome[c].text = logic[c].err.text

\* C4: when the reader has finished accumulating a buffer whose last byte is
\* not NUL, the only results the call can still have are the error "invalid
\* termination character" and the timeout of a deadline that fired before
\* the buffer was handed over; once the buffer is handed over the call
\* returns "invalid termination character", whatever came before that byte;
\* and a success is only ever decoded from a buffer that ends in NUL.
C4_InvalidTermination ==
  \A c \in Calls :
    /\ (/\ rpc[c] \in {"close", "send"} \/ Handed(c)
        /\ buf[c] # <<>> /\ Last(buf[c]) # NUL)
         => outcome[c] \in {NoOutcome, ErrTimeout, ErrTermination}
    /\ (Handed(c) /\ recv[c].buf # <<>> /\ Last(recv[c].buf) # NUL)
         => ppc[c] = "returned" /\ outcome[c] = ErrTermination
    /\ outcome[c].kind = "value"
         => Handed(c) /\ recv[c].buf # <<>> /\ Last(recv[c].buf) = NUL

\* A well-formed "ok:" message that lost its NUL was handed over and refused.
C4_Witness ==
  /\ Handed(1)
  /\ recv[1].buf = TagOk \o Marshal(Ptr(1)).bytes
  /\ outcome[1] = ErrTermination

\* C5: when the select takes the deadline branch the call returns the timeout
\* error; exactly one SIGINT is sent, to the pid fork returned for this call,
\* and the timeout error is returned whether that kill succeeded or not;
\* nothing is received from the reader or decoded for the call, and the call
\* returns once.
C5_Timeout ==
  \A c \in Calls :
    /\ kills[c] # <<>> <=> outcome[c] = ErrTimeout
    /\ outcome[c] = ErrTimeout =>
         /\ ppc[c] = "returned" /\ returns[c] = 1
         /\ Len(kills[c]) = 1
         /\ kills[c][1].pid = pid[c] /\ pid[c] = c
         /\ ~recv[c].got

\* The call timed out, its kill failed, and the child's whole message was
\* read afterwards by the reader, which stays blocked on done.
C5_Witness ==
  /\ outcome[1] = ErrTimeout
  /\ ~kills[1][1].ok
  /\ rpc[1] = "send" /\ buf[1] = msg[1] /\ Len(msg[1]) > 0

\* C6: concurrent calls do not interfere: while a call waits for its result,
\* once its own child is gone and the parent has closed its copy of the write
\* end, nothing else keeps the call's pipe open, so its reader sees
\* end-of-file as soon as the pipe is drained, whatever the other call's
\* child does.
C6_NoInterference ==
  \A c \in Calls :
    (/\ alive /\ Forked(c)
     /\ ppc[c] = "select" /\ rpc[c] = "read"
     /\ cpc[c] \in {"exited", "killed"}
     /\ WrEnd(c) \notin fds[Parent]
     /\ pipe[c] = <<>>)
      => AtEOF(c)

\* C7 as claimed: a namespace directory without a "net" entry makes the call
\* fail with a setup error before any clone: no child is ever created.
C7_NoCloneWithoutNet ==
  \A c \in Calls :
    nsref[c] = "no_net" =>
      /\ pid[c] <= 0 /\ cpc[c] = "none"
      /\ ppc[c] = "returned" => outcome[c].kind = "setup"

ErrOpenNet == <<"failed to open net namespace", ": ", "ENOENT">>

\* C7 as amended: with no "net" entry the parent's setup does not fail for
\* that reason (its setup errors are those of the pipe and of the fork); the
\* open fails in the child, after the clone, as the child's only namespace
\* system call; the logic is not run, the child's message is the "err:"
\* message of the failed open, and a parent that receives the whole message
\* returns that error.
C7_OpenNetFailsInChild ==
  \A c \in Calls :
    nsref[c] = "no_net" =>
      /\ (ppc[c] = "returned" /\ outcome[c].kind = "setup")
           => outcome[c].text[1] \in {"failed to init pipes", "failed to fork"}
      /\ (sys[c] # <<>> \/ cpc[c] \in {"exec", "write", "close", "exit", "exited"})
           => Forked(c) /\ sys[c] = <<Sys("open", "net", FALSE)>>
      /\ ~child[c].ran
      /\ (msg[c] # <<>> \/ cpc[c] \in {"write", "close", "exit", "exited"})
           => msg[c] = TagErr \o ErrOpenNet \o <<NUL>>
      /\ outcome[c].kind \notin {"none", "setup", "timeout", "panic", "protocol"}
           => outcome[c] = Outcome("error", Nil, ErrOpenNet)

\* The call on a directory without "net" forked, and returned the child's
\* error of the failed open.
C7_Witness ==
  /\ nsref[1] = "no_net" /\ Forked(1)
  /\ outcome[1] = Outcome("error", Nil, ErrOpenNet)

NetFailed(c) == \E i \in 1..Len(sys[c]) : sys[c][i].ns = "net" /\ ~sys[c][i].ok
FailedNetStep(c) == CHOOSE i \in 1..Len(sys[c]) : sys[c][i].ns = "net" /\ ~sys[c][i].ok

\* C8: switchNs makes every network-namespace call before any
\* mount-namespace call; when a network step fails no mount step is made, the
\* logic is not run, the error the child holds names the failed network step,
\* and a parent that decodes the child's message returns an error naming it.
C8_NetBeforeMount ==
  \A c \in Calls :
    /\ \A i, j \in 1..Len(sys[c]) :
         (sys[c][i].ns = "net" /\ sys[c][j].ns = "mnt") => i < j
    /\ sys[c] # <<>> => sys[c][1] \in {Sys("open", "net", TRUE), Sys("open", "net", FALSE)}
    /\ NetFailed(c) =>
         LET step == "failed to " \o sys[c][FailedNetStep(c)].call \o " net namespace"
         IN /\ \A i \in 1..Len(sys[c]) : sys[c][i].ns # "mnt"
            /\ ~child[c].ran
            /\ child[c].err.isErr /\ child[c].err.text[1] = step
            /\ outcome[c].kind \in {"error", "value"}
                 => outcome[c].kind = "error" /\ outcome[c].text[1] = step

\* A failed join of the network namespace reached the caller as an error
\* naming it, with no mount step made.
C8_Witness ==
  /\ fault[1] = "setns_net" /\ NetFailed(1)
  /\ outcome[1].kind = "error"
  /\ outcome[1].text[1] = "failed to setns net namespace"

\* C9: when the clone fails no child exists, the call returns the wrapped
\* "failed to fork" error, and both ends of the call's pipe are closed in the
\* parent by the time it returns.
C9_ForkFailureCleanup ==
  \A c \in Calls :
    (alive /\ pid[c] < 0) =>
      /\ cpc[c] = "none"
      /\ ppc[c] = "returned" /\ outcome[c].kind = "setup"
      /\ outcome[c].text[1] = "failed to fork"
      /\ RdEnd(c) \notin fds[Parent] /\ WrEnd(c) \notin fds[Parent]

\* C10: after a clone the parent closes its copy of the write end before its
\* first read and has closed the read end once its reader has finished, on
\* every path; the child closes its copy of the read end before it writes
\* and closes the write end after writing.
C10_PipeEndsClosed ==
  \A c \in Calls :
    Forked(c) =>
      /\ rpc[c] # "none" => WrEnd(c) \notin fds[Parent]
      /\ rpc[c] \in {"send", "sendnil", "done"} => RdEnd(c) \notin fds[Parent]
      /\ cpc[c] \in {"write", "close", "exit"} => RdEnd(c) \notin fds[c]
      /\ cpc[c] \in {"exit", "exited"} => WrEnd(c) \notin fds[c]

\* The bytes of its message the child has written are the bytes the reader
\* holds followed by the bytes still in the pipe.
InOrder(c) == buf[c] \o pipe[c] = SubSeq(msg[c], 1, written[c])
\* The reader left its loop by the break, not by a read error.
ReaderLeftLoop(c) == rpc[c] \in {"close", "send"} \/ (rpc[c] = "done" /\ ~recv[c].isNil)

\* C11 as stated: the child has written every byte of its message when it
\* closes its write end.
C11_WritesAllBeforeClose ==
  \A c \in Calls :
    cpc[c] \in {"close", "exit", "exited"} => written[c] = Len(msg[c])

\* C11: the child closes its write end only after its write loop ended, with
\* every byte of the message written or with a failed write, and the bytes
\* written are a prefix of the message in order; it closes the write end
\* before it exits; the parent decodes only after the reader left its loop
\* with a zero byte in the buffer or at end-of-file, or after a read error.
C11_Ordering ==
  \A c \in Calls :
    Forked(c) =>
      /\ cpc[c] \in {"close", "exit", "exited"} =>
           written[c] = Len(msg[c]) \/ child[c].werr
      /\ child[c].werr => written[c] < Len(msg[c])
      /\ InOrder(c)
      /\ cpc[c] \in {"exit", "exited"} => WrEnd(c) \notin fds[c]
      /\ ReaderLeftLoop(c) => Contains(buf[c], NUL) \/ AtEOF(c)
      /\ recv[c].got =>
           /\ rpc[c] = "done"
           /\ recv[c].isNil \/ recv[c].buf = buf[c]

\* A child whose second write failed closed and exited, and the parent decoded
\* the truncated bytes after its reader saw end-of-file.
C11_Witness ==
  \E c \in Calls :
    /\ cpc[c] = "exited" /\ child[c].werr /\ written[c] > 0
    /\ Handed(c) /\ recv[c].buf = SubSeq(msg[c], 1, written[c])
    /\ ~Contains(recv[c].buf, NUL)

\* C12: toExecute ran if and only if switchNs returned no error; after a failed
\* switch the child's message is "err:" followed by the switch error; after a
\* successful one it is the encoding of what toExecute returned; no message
\* exists before the encoding step, and every byte the child puts on the pipe
\* belongs to that one message.
C12_LogicIffSwitched ==
  \A c \in Calls :
    LET sw == switchNs(nsref[c], fault[c])
    IN /\ cpc[c] \in {"none", "switch", "exec"} =>
            ~child[c].ran /\ msg[c] = <<>> /\ written[c] = 0
       /\ cpc[c] \in {"write", "close", "exit", "exited"} =>
            /\ child[c].ran <=> ~sw.err.isErr
            /\ ~child[c].ran => msg[c] = <<"err:">> \o sw.err.text \o <<NUL>>
            /\ child[c].ran /\ logic[c].err.isErr =>
                 msg[c] = <<"err:">> \o logic[c].err.text \o <<NUL>>
            /\ child[c].ran /\ ~logic[c].err.isErr =>
                 msg[c][1] \in {"ok:", "err:"} /\ Last(msg[c]) = NUL
       /\ written[c] <= Len(msg[c])
       /\ Forked(c) => InOrder(c)

\* A child whose setns on the mount namespace failed skipped toExecute, wrote
\* its whole "err:" message and exited, and the parent received that message.
C12_Witness ==
  \E c \in Calls :
    /\ nsref[c] = "ok" /\ fault[c] = "setns_mnt"
    /\ cpc[c] = "exited" /\ ~child[c].ran /\ logic[c].err = NoErr
    /\ Delivered(c) /\ msg[c][1] = "err:" /\ recv[c].buf = msg[c]

\* C13: whatever the sizes of the reads that carried it, a message the child
\* wrote completely gives the parent the outcome that decoding the whole
\* message gives.
C13_ChunkIndependent ==
  \A c \in Calls :
    Delivered(c) => outcome[c] = Decode(msg[c])

\* C14: when the reader hands over nothing, after a read error or after
\* end-of-file on an empty buffer, the call returns a nil result and an
\* error to its caller.
C14_TruncatedIsProtocolError ==
  \A c \in Calls :
    recv[c].got /\ recv[c].buf = <<>> =>
      /\ ppc[c] = "returned"
      /\ outcome[c].kind \notin {"none", "value", "panic"} /\ outcome[c].val = Nil

\* C15: a received buffer that ends in the zero byte is classified by the first
\* unit of the text before that byte: "err:" gives the error whose message is
\* the rest of the text; "ok:" gives the deserialized rest, or a decode error
\* when the rest does not deserialize; any other text gives the "unknown
\* response" error carrying the text.
C15_DecodeClassifies ==
  \A c \in Calls :
    Handed(c) /\ recv[c].buf # <<>> /\ Last(recv[c].buf) = NUL =>
      LET text == SubSeq(recv[c].buf, 1, Len(recv[c].buf) - 1)
          tag == IF text = <<>> THEN "" ELSE text[1]
      IN /\ ppc[c] = "returned" /\ returns[c] = 1
         /\ tag = "err:" => outcome[c] = Outcome("error", Nil, Tail(text))
         /\ tag = "ok:" =>
              LET u == Unmarshal(Tail(text))
              IN /\ u.ok => outcome[c] = Outcome("value", u.val, <<>>)
                 /\ ~u.ok => outcome[c] = Outcome("protocol", Nil, <<"json: cannot unmarshal">>)
         /\ tag \notin {"err:", "ok:"} =>
              outcome[c] = Outcome("protocol", Nil, <<"unknown response: ">> \o text)

\* A terminated buffer with "err:" after its first unit was decoded as an
\* unknown response.
C15_Witness ==
  \E c \in Calls :
    /\ Handed(c) /\ recv[c].buf = <<"a", "err:", NUL>>
    /\ outcome[c].text = <<"unknown response: ", "a", "err:">>

\* C16: a child in its write loop is never stuck: the pipe has room for its
\* next write, or the parent's reader is about to read or still reading the
\* pipe and will make room, so that the loop ends and the child exits.
C16_ChildNeverStuck ==
  \A c \in Calls :
    cpc[c] = "write" => Room(c) > 0 \/ (alive /\ rpc[c] \in {"none", "read"})

\* C17: a reader that is sending on done always has a receiver: its call is
\* still in the select, so the send completes and the reader task finishes.
C17_ReaderHasReceiver ==
  \A c \in Calls :
    alive /\ rpc[c] \in {"send", "sendnil"} => ppc[c] = "select"

\* The "Target:" line that opens the section line k lies in, 0 before the
\* first one.
IsTargetHeader(line) == line # <<>> /\ line[1] = "Target: "
SectionOf(k) ==
  LET hs == {j \in 1..k : IsTargetHeader(scan.lines[j])}
  IN IF hs = {} THEN 0 ELSE CHOOSE j \in hs : \A h \in hs : h <= j

\* C18: when findScsiDevice found a disk name, the disk line lies in a section
\* of the requested target, and the portal line and the lun line that led to
\* it lie in that same section.
C18_DiskFromRequestedSection ==
  scan.pc = "done" /\ scan.name # <<>> =>
    LET sec == SectionOf(scan.i)
    IN /\ sec > 0
       /\ scan.lines[sec][2] = ReqTarget
       /\ SectionOf(scan.ipAt) = sec
       /\ SectionOf(scan.lunAt) = sec

\* C19: GetDevice calls findScsiDevice at most DeviceWaitRetryCounts times;
\* it returns either a device with no error or no device with an error, never
\* neither, whatever the retry count.
C19_DeviceOrError ==
  /\ get.tried <= get.count
  /\ get.pc = "done" =>
       \/ get.retDev # "nil" /\ get.retErr = "nil"
       \/ get.retDev = "nil" /\ get.retErr # "nil"

\* Sizes the buffer can have: the first size doubled any number of times.
RECURSIVE IsDoubled(_)
IsDoubled(n) == n = InitBufSize \/ (n > InitBufSize /\ n % 2 = 0 /\ IsDoubled(n \div 2))

\* C20: the reader holds at most bufSize bytes; bufSize is the first size
\* doubled, and it was doubled only when the buffer was full; the slice given
\* to read is never empty, so the reader leaves its loop by the break only
\* with a zero byte in the buffer or at end-of-file; the bytes it holds, and
\* hands over, are the bytes it took from the pipe, in order.
C20_BufferInvariant ==
  \A c \in Calls :
    /\ 0 <= Len(buf[c]) /\ Len(buf[c]) <= bufSize[c]
    /\ IsDoubled(bufSize[c])
    /\ bufSize[c] > InitBufSize => Len(buf[c]) >= bufSize[c] \div 2
    /\ rpc[c] = "read" => Grown(c) - Len(buf[c]) > 0
    /\ ReaderLeftLoop(c) => Contains(buf[c], NUL) \/ AtEOF(c)
    /\ Forked(c) => buf[c] \o pipe[c] = SubSeq(msg[c], 1, written[c])
    /\ Handed(c) => recv[c].buf = buf[c]

\* The buffer was doubled twice and the whole long message was handed over.
C20_Witness ==
  \E c \in Calls :
    /\ bufSize[c] = 4 * InitBufSize /\ Len(buf[c]) > 2 * InitBufSize
    /\ Delivered(c) /\ recv[c].buf = msg[c] /\ Len(msg[c]) = LongLen + 2

====
